---- MODULE Spec2Model ----
(***************************************************************************)
(* A model of torch/utils/mobile_optimizer.py: the two public entry points *)
(* optimize_for_mobile and generate_mobile_module_lints, the objects they  *)
(* are handed, and the external graph engine optimize_for_mobile calls.    *)
(*                                                                         *)
(* Python strings that are searched or formatted (parameter names,         *)
(* operator names) are sequences of characters, so that the substring test *)
(* `"dropout" in op_name` is computed and not assumed.  Message templates  *)
(* are atomic strings; a formatted message is the sequence of its pieces.  *)
(***************************************************************************)
EXTENDS Integers, Sequences, FiniteSets, TLC

VARIABLES heap, whitelist_default, engine_calls, last_opt, opt_seen, last_lint

vars == <<heap, whitelist_default, engine_calls, last_opt, opt_seen, last_lint>>

(***************************************************************************)
(* Bounds of the model.                                                    *)
(***************************************************************************)
\* longest named_parameters() sequence of a module of InitLint
MaxParams == 2
\* longest export_opnames() list of a module of InitLint
MaxOps == 2
\* objects on the heap of Spec (each successful optimize call adds one)
MaxObjects == 4

(***************************************************************************)
(* Strings.                                                                *)
(***************************************************************************)
s_dropout == <<"d", "r", "o", "p", "o", "u", "t">>
s_batch_norm == <<"b", "a", "t", "c", "h", "_", "n", "o", "r", "m">>
s_aten == <<"a", "t", "e", "n", ":", ":">>
s_feature_ == <<"f", "e", "a", "t", "u", "r", "e", "_">>

op_dropout == s_aten \o s_dropout
op_feature_dropout == s_aten \o s_feature_ \o s_dropout
op_batch_norm == s_aten \o s_batch_norm
op_linear == s_aten \o <<"l", "i", "n", "e", "a", "r">>
op_relu == s_aten \o <<"r", "e", "l", "u">>
\* an operator name that contains both needles, "batch_norm" textually first
op_batch_norm_dropout == <<"m", "y", ":", ":">> \o s_batch_norm \o <<"_">> \o s_dropout

OpNames ==
  {op_dropout, op_feature_dropout, op_batch_norm, op_linear, op_relu,
   op_batch_norm_dropout}

p_weight == <<"w", "e", "i", "g", "h", "t">>
p_bias == <<"b", "i", "a", "s">>

ParamNames == {p_weight, p_bias}

\* Python's `needle in hay` for strings: needle occurs at some offset of hay.
ContainsPrefixOnly(needle, hay) ==
  /\ Len(needle) <= Len(hay)
  /\ SubSeq(hay, 1, Len(needle)) = needle

Contains(needle, hay) ==
  \E i \in 1..(Len(hay) - Len(needle) + 1) :
    SubSeq(hay, i, i + Len(needle) - 1) = needle

(***************************************************************************)
(* LintCode (an Enum) and the findings.                                    *)
(***************************************************************************)
BUNDLED_INPUT == 1
REQUIRES_GRAD == 2
DROPOUT == 3
BATCHNORM == 4

\* LintCode.X.name
LintCodeName == <<"BUNDLED_INPUT", "REQUIRES_GRAD", "DROPOUT", "BATCHNORM">>

BundledFinding ==
  [name |-> LintCodeName[BUNDLED_INPUT],
   message |-> <<"No bundled input, please add bundled inputs before saving the module using torch.utils.bundled_inputs.augment_model_with_bundled_inputs.">>]

RequiresGradFinding(pname) ==
  [name |-> LintCodeName[REQUIRES_GRAD],
   message |-> <<"Param ", pname,
                 " requires grad, please set torch.no_grad() to reduce memory usage and improve computation speed during inference phase.">>]

DropoutFinding(op_name) ==
  [name |-> LintCodeName[DROPOUT],
   message |-> <<"Operator ", op_name,
                 " exists, remember to call eval() before saving the module.">>]

BatchNormFinding(op_name) ==
  [name |-> LintCodeName[BATCHNORM],
   message |-> <<"Operator ", op_name,
                 " exists, remember to call eval() before saving the module and call torch.utils.mobile_optimizer.optimize_for_mobile to drop batch_norm operator.">>]

(***************************************************************************)
(* Objects.  A ScriptModule carries what the two functions read: whether   *)
(* it has the attribute _generate_bundled_inputs, its named_parameters()   *)
(* in iteration order, its export_opnames() list, and its compiled graph.  *)
(* The graph is a base graph and the passes that have rewritten it.        *)
(***************************************************************************)
ScriptModuleType == "torch.jit.ScriptModule"

\* isinstance(script_module, torch.jit.ScriptModule)
IsScriptModule(obj) == obj.type = ScriptModuleType

NoGraph == [base |-> "none", applied |-> <<>>]

Other(t) ==
  [type |-> t, bundled |-> FALSE, params |-> <<>>, ops |-> <<>>, graph |-> NoGraph]

ScriptModule(b, ps, os, g) ==
  [type |-> ScriptModuleType, bundled |-> b, params |-> ps, ops |-> os, graph |-> g]

\* the exception both functions raise on a wrong input type; the message is
\* 'Got {}, but ScriptModule is expected.'.format(type(script_module))
WrongKindError(obj) ==
  [kind |-> "ValueError", message |-> <<"Got ", obj.type, ", but ScriptModule is expected.">>]

TypeError(obj) ==
  [kind |-> "TypeError", message |-> <<"Got ", obj.type, ", but ScriptModule is expected.">>]

Returned(v) == [raised |-> FALSE, exc |-> <<>>, value |-> v]

Raised(e) == [raised |-> TRUE, exc |-> e, value |-> <<>>]

(***************************************************************************)
(* generate_mobile_module_lints, as a function of the module it reads.     *)
(***************************************************************************)
\* lines 48-50
BundledCheck(m) == IF ~m.bundled THEN <<BundledFinding>> ELSE <<>>

\* lines 52-56, one iteration of the loop after another
RECURSIVE ParamCheck(_)
ParamCheck(params) ==
  IF params = <<>> THEN <<>>
  ELSE (IF Head(params).requires_grad
          THEN <<RequiresGradFinding(Head(params).name)>>
          ELSE <<>>)
       \o ParamCheck(Tail(params))

\* lines 60-66, the body of the loop over op_names: two independent ifs
OpBodyElif(op_name) ==
  IF Contains(s_dropout, op_name) THEN <<DropoutFinding(op_name)>>
  ELSE IF Contains(s_batch_norm, op_name) THEN <<BatchNormFinding(op_name)>>
  ELSE <<>>

OpBodySwapped(op_name) ==
  (IF Contains(s_batch_norm, op_name) THEN <<BatchNormFinding(op_name)>> ELSE <<>>)
  \o (IF Contains(s_dropout, op_name) THEN <<DropoutFinding(op_name)>> ELSE <<>>)

OpBody(op_name) ==
  (IF Contains(s_dropout, op_name) THEN <<DropoutFinding(op_name)>> ELSE <<>>)
  \o (IF Contains(s_batch_norm, op_name) THEN <<BatchNormFinding(op_name)>> ELSE <<>>)

\* lines 58-66
RECURSIVE OpCheck(_)
OpCheck(op_names) ==
  IF op_names = <<>> THEN <<>>
  ELSE OpBody(Head(op_names)) \o OpCheck(Tail(op_names))

\* lines 46-68: lint_list after the three blocks appended to it in turn
LintListOpsFirst(m) == BundledCheck(m) \o OpCheck(m.ops) \o ParamCheck(m.params)

LintList(m) == BundledCheck(m) \o ParamCheck(m.params) \o OpCheck(m.ops)

\* lines 42-44
TypeCheckLint(obj) ==
  IF ~IsScriptModule(obj) THEN <<TypeError(obj)>> ELSE <<>>

\* lines 42-68: the outcome of a call
generate_mobile_module_lints(obj) ==
  LET err == TypeCheckLint(obj)
  IN IF err # <<>> THEN Raised(err[1]) ELSE Returned(LintList(obj))

\* the module after the body of generate_mobile_module_lints has run: the body
\* only reads it (hasattr, named_parameters, export_opnames)
ModuleAfterLintEval(m) ==
  [m EXCEPT !.params = [i \in DOMAIN m.params |->
                          [m.params[i] EXCEPT !.requires_grad = FALSE]]]

ModuleAfterLint(m) == m

(***************************************************************************)
(* The graph engine torch._C._jit_pass_optimize_for_mobile and             *)
(* torch.jit._recursive.wrap_cpp_module.                                   *)
(***************************************************************************)
\* the passes the engine knows, in the order it runs them
PassOrder == <<"OPERATOR_FUSION", "DEAD_CODE_ELIMINATION">>

Passes == {PassOrder[i] : i \in DOMAIN PassOrder}

EmptyDict == [p \in {} |-> TRUE]

\* the dictionaries a caller can pass: pass identifier -> bool
Selectors == UNION {[D -> BOOLEAN] : D \in SUBSET Passes}

\* an empty selector runs every pass, a populated one those it maps to True
Enabled(sel, p) == sel = EmptyDict \/ (p \in DOMAIN sel /\ sel[p])

RECURSIVE PassesToRun(_, _)
PassesToRun(sel, order) ==
  IF order = <<>> THEN <<>>
  ELSE (IF Enabled(sel, Head(order)) THEN <<Head(order)>> ELSE <<>>)
       \o PassesToRun(sel, Tail(order))

\* apply_passes(graph, pass_selector) -> graph
apply_passes(graph, sel) ==
  [graph EXCEPT !.applied = @ \o PassesToRun(sel, PassOrder)]

\* the engine returns a rewritten clone of the module it is given
jit_pass_optimize_for_mobile(m, sel) ==
  [m EXCEPT !.graph = apply_passes(m.graph, sel)]

(***************************************************************************)
(* optimize_for_mobile.                                                    *)
(***************************************************************************)
\* the argument of a call: omitted, or a dictionary
Omitted == [omitted |-> TRUE, dict |-> EmptyDict]

Given(d) == [omitted |-> FALSE, dict |-> d]

Arguments == {Omitted} \cup {Given(d) : d \in Selectors}

\* line 16: an omitted argument is bound to the default object, which is
\* created once, when the function is defined
BindSelectorIgnored(arg) == whitelist_default

BindSelector(arg) == IF arg.omitted THEN whitelist_default ELSE arg.dict

\* lines 26-31: the contents of the dictionary after the body has run; no
\* statement of the body writes to whitelist_optimizer_dict
DictAfterBodyAllTrue(d) == [p \in Passes |-> TRUE]

DictAfterBodyFill(d) == [p \in Passes |-> IF p \in DOMAIN d THEN d[p] ELSE FALSE]

DictAfterBody(d) == d

\* line 31: wrap_cpp_module makes a new object around the engine's result
ResultHandleSame(x) == x

ResultHandle(x) == Len(heap) + 1

\* lines 26-28
TypeCheckOptimizeWrongKind(obj) ==
  IF ~IsScriptModule(obj) THEN <<WrongKindError(obj)>> ELSE <<>>

TypeCheckOptimize(obj) ==
  IF ~IsScriptModule(obj) THEN <<TypeError(obj)>> ELSE <<>>

(***************************************************************************)
(* The state.                                                              *)
(*   heap               the objects a caller holds, by handle              *)
(*   whitelist_default  the contents of the default argument object        *)
(*   engine_calls       how often the engine has been invoked              *)
(*   last_opt           the last call of optimize_for_mobile: its input,   *)
(*                      its argument, its outcome, what the engine was     *)
(*                      handed and the passes the engine ran               *)
(*   opt_seen           (handle, argument) -> graph of the first result    *)
(*   last_lint          the last call of generate_mobile_module_lints: its *)
(*                      input and outcome, whether the call before it had  *)
(*                      the same input, and the outcome of the first call  *)
(*                      of that run of calls                               *)
(***************************************************************************)
Handles == 1..Len(heap)

NoOpt ==
  [input |-> 0, arg |-> <<>>, out |-> Returned(<<>>), engine_sel |-> <<>>,
   ran |-> <<>>]

NoLint ==
  [input |-> 0, out |-> Returned(<<>>), again |-> FALSE, first_out |-> Returned(<<>>)]

\* heap h with obj at handle x, which is a handle of h or the next free one
Put(h, x, obj) ==
  [i \in 1..(IF x > Len(h) THEN x ELSE Len(h)) |-> IF i = x THEN obj ELSE h[i]]

OptimizeForMobile(x, arg) ==
  LET obj == heap[x]
      sel == BindSelector(arg)
      err == TypeCheckOptimize(obj)
  IN IF err # <<>>
       THEN /\ last_opt' = [input |-> x, arg |-> <<>>, out |-> Raised(err[1]),
                            engine_sel |-> <<>>, ran |-> <<>>]
            /\ UNCHANGED <<heap, whitelist_default, engine_calls, opt_seen, last_lint>>
       ELSE LET optimized == jit_pass_optimize_for_mobile(obj, sel)
                r == ResultHandle(x)
                key == <<x, arg>>
            IN /\ Len(heap) < MaxObjects
               /\ engine_calls' = engine_calls + 1
               /\ heap' = Put(heap, r, optimized)
               /\ whitelist_default' =
                    IF arg.omitted THEN DictAfterBody(sel) ELSE whitelist_default
               /\ opt_seen' =
                    IF key \in DOMAIN opt_seen THEN opt_seen
                    ELSE [k \in DOMAIN opt_seen \cup {key} |->
                            IF k = key THEN optimized.graph ELSE opt_seen[k]]
               /\ last_opt' = [input |-> x, arg |-> <<arg>>, out |-> Returned(r),
                               engine_sel |-> <<sel>>,
                               ran |-> PassesToRun(sel, PassOrder)]
               /\ UNCHANGED last_lint

GenerateMobileModuleLints(x) ==
  LET obj == heap[x]
      out == generate_mobile_module_lints(obj)
      again == last_lint.input = x
  IN /\ last_lint' = [input |-> x, out |-> out, again |-> again,
                      first_out |-> IF again THEN last_lint.first_out ELSE out]
     /\ heap' = IF out.raised THEN heap ELSE Put(heap, x, ModuleAfterLint(obj))
     /\ UNCHANGED <<whitelist_default, engine_calls, last_opt, opt_seen>>

(***************************************************************************)
(* Initial states.                                                         *)
(***************************************************************************)
\* sequences of length at most n over S without repetition
RECURSIVE DistinctSeqs(_, _)
DistinctSeqs(S, n) ==
  IF n = 0 THEN {<<>>}
  ELSE LET shorter == DistinctSeqs(S, n - 1)
       IN shorter \cup
          {Append(s, e) : <<s, e>> \in
             {pr \in shorter \X S : \A i \in DOMAIN pr[1] : pr[1][i] # pr[2]}}

\* named_parameters(): names are distinct, each with a requires_grad flag
ParamLists ==
  UNION {{[i \in DOMAIN ns |-> [name |-> ns[i], requires_grad |-> f[i]]] :
            f \in [DOMAIN ns -> BOOLEAN]} :
         ns \in DistinctSeqs(ParamNames, MaxParams)}

\* export_opnames(): distinct operator names, in some order
OpLists == DistinctSeqs(OpNames, MaxOps)

BaseGraph == [base |-> "g0", applied |-> <<>>]

NonModules == <<Other("NoneType"), Other("torch.nn.Module")>>

InitCommon ==
  /\ whitelist_default = EmptyDict
  /\ engine_calls = 0
  /\ last_opt = NoOpt
  /\ opt_seen = [k \in {} |-> BaseGraph]
  /\ last_lint = NoLint

\* one module of any shape, and two objects that are no ScriptModule
InitLint ==
  /\ heap \in {NonModules \o <<ScriptModule(b, ps, os, BaseGraph)>> :
                 b \in BOOLEAN, ps \in ParamLists, os \in OpLists}
  /\ InitCommon

NextLint == \E x \in Handles : GenerateMobileModuleLints(x)

SpecLint == InitLint /\ [][NextLint]_vars

\* a module with a parameter and an operator, and one object that is no
\* ScriptModule
Init ==
  /\ heap = <<Other("torch.nn.Module"),
              ScriptModule(FALSE,
                           <<[name |-> p_weight, requires_grad |-> TRUE]>>,
                           <<op_relu>>, BaseGraph)>>
  /\ InitCommon

Next ==
  \/ \E x \in Handles, arg \in Arguments : OptimizeForMobile(x, arg)
  \/ \E x \in Handles : GenerateMobileModuleLints(x)

Spec == Init /\ [][Next]_vars

(***************************************************************************)
(* Properties.  LintM is the module of the last lint call that returned    *)
(* and LintR the sequence it returned.                                     *)
(***************************************************************************)
LintReturned == last_lint.input # 0 /\ ~last_lint.out.raised

LintM == heap[last_lint.input]

LintR == last_lint.out.value

OptReturned == last_opt.input # 0 /\ ~last_opt.out.raised

OptArg == last_opt.arg[1]

OptResult == heap[last_opt.out.value]

\* the name a REQUIRES_GRAD, DROPOUT or BATCHNORM finding carries in its message
Named(f) == f.message[2]

IsOpFinding(f) == f.name \in {"DROPOUT", "BATCHNORM"}

ParamPos(m, n) == CHOOSE i \in DOMAIN m.params : m.params[i].name = n

OpPos(m, o) == CHOOSE i \in DOMAIN m.ops : m.ops[i] = o

Count(seq, f) == Cardinality({i \in DOMAIN seq : seq[i] = f})

\* the operator names of OpNames that contain "dropout", and "batch_norm"
WithDropout == {op_dropout, op_feature_dropout, op_batch_norm_dropout}

WithBatchNorm == {op_batch_norm, op_batch_norm_dropout}

Elems(seq) == {seq[i] : i \in DOMAIN seq}

\* C1: a call of optimize_for_mobile or generate_mobile_module_lints on an
\* object that is no ScriptModule raises TypeError, and nothing else happens:
\* the engine is not invoked, no object is made or changed, the default
\* dictionary is as it was, and nothing is returned.
C1_TypeErrorBeforeAnyEffect ==
  [][/\ (last_opt' # last_opt /\ ~IsScriptModule(heap[last_opt'.input])) =>
          /\ last_opt'.out.raised
          /\ last_opt'.out.exc.kind = "TypeError"
          /\ last_opt'.out.exc.message[2] = heap[last_opt'.input].type
          /\ last_opt'.out.value = <<>>
          /\ last_opt'.engine_sel = <<>>
          /\ last_opt'.ran = <<>>
          /\ engine_calls' = engine_calls
          /\ heap' = heap
          /\ whitelist_default' = whitelist_default
     /\ (last_lint' # last_lint /\ ~IsScriptModule(heap[last_lint'.input])) =>
          /\ last_lint'.out.raised
          /\ last_lint'.out.exc.kind = "TypeError"
          /\ last_lint'.out.exc.message[2] = heap[last_lint'.input].type
          /\ last_lint'.out.value = <<>>
          /\ engine_calls' = engine_calls
          /\ heap' = heap
          /\ whitelist_default' = whitelist_default]_vars

\* both functions have raised on a non-module, after the engine has been used
C1_Witness ==
  /\ last_opt.input # 0 /\ last_opt.out.raised
  /\ last_lint.input # 0 /\ last_lint.out.raised
  /\ engine_calls > 0

\* C2: the default dictionary is empty in every state, so a call with the
\* selector omitted hands the engine the empty dictionary, as a call with {}
\* does; both run every pass, and on the same module they give the same graph.
C2_OmittedIsEmptySelector ==
  /\ whitelist_default = EmptyDict
  /\ (OptReturned /\ (OptArg.omitted \/ OptArg.dict = EmptyDict)) =>
       /\ last_opt.engine_sel = <<EmptyDict>>
       /\ last_opt.ran = PassOrder
       /\ \A k \in DOMAIN opt_seen :
            (k[1] = last_opt.input /\ (k[2].omitted \/ k[2].dict = EmptyDict)) =>
              opt_seen[k] = OptResult.graph

\* a call with the selector omitted, after a call with a populated selector
C2_Witness ==
  /\ OptReturned
  /\ OptArg.omitted
  /\ \E k \in DOMAIN opt_seen : ~k[2].omitted /\ k[2].dict # EmptyDict

\* C3: a call with a populated selector runs the passes the selector maps to
\* True, each once and in the engine's order, and no other; the result's graph
\* is the input's graph rewritten by these passes, and is the input's graph
\* when no pass is mapped to True.
C3_RunsExactlyTheSelected ==
  (OptReturned /\ ~OptArg.omitted /\ OptArg.dict # EmptyDict) =>
    LET d == OptArg.dict
        on == {p \in Passes : p \in DOMAIN d /\ d[p]}
        ran == last_opt.ran
    IN /\ Elems(ran) = on
       /\ Len(ran) = Cardinality(on)
       /\ \A i, j \in DOMAIN ran :
            i < j => \E a, b \in DOMAIN PassOrder :
                       a < b /\ PassOrder[a] = ran[i] /\ PassOrder[b] = ran[j]
       /\ OptResult.graph.base = heap[last_opt.input].graph.base
       /\ OptResult.graph.applied = heap[last_opt.input].graph.applied \o ran
       /\ (on = {} => OptResult.graph = heap[last_opt.input].graph)

\* every pass mapped to False: no pass ran, the call returned, the graph is
\* the input's
C3_Witness ==
  /\ OptReturned
  /\ ~OptArg.omitted
  /\ OptArg.dict = [p \in Passes |-> FALSE]
  /\ last_opt.ran = <<>>
  /\ OptResult.graph = heap[last_opt.input].graph

\* C4: a call of optimize_for_mobile that returns leaves every object the
\* caller holds as it was (graph, parameters, operator names, bundled inputs),
\* and the object it returns is a new one, not the input.
C4_InputNotMutated ==
  [][engine_calls' # engine_calls =>
       /\ \A h \in DOMAIN heap : heap'[h] = heap[h]
       /\ last_opt'.out.value \notin DOMAIN heap
       /\ last_opt'.out.value \in DOMAIN heap'
       /\ last_opt'.out.value # last_opt'.input]_vars

\* a call has returned a module whose graph is rewritten
C4_Witness ==
  /\ OptReturned
  /\ OptResult.graph # heap[last_opt.input].graph
  /\ last_opt.out.value # last_opt.input

Rank(f) ==
  CASE f.name = "BUNDLED_INPUT" -> 0
    [] f.name = "REQUIRES_GRAD" -> 1
    [] OTHER -> 2

\* C6: in a returned sequence no finding precedes BUNDLED_INPUT, no operator
\* finding precedes a REQUIRES_GRAD finding, the REQUIRES_GRAD findings are in
\* the order of named_parameters and the operator findings in the order of
\* the operator names.
C6_DiscoveryOrder ==
  LintReturned =>
    \A i, j \in DOMAIN LintR :
      i < j =>
        /\ Rank(LintR[i]) <= Rank(LintR[j])
        /\ (LintR[i].name = "BUNDLED_INPUT" => i = 1)
        /\ (Rank(LintR[i]) = 1 /\ Rank(LintR[j]) = 1) =>
             ParamPos(LintM, Named(LintR[i])) < ParamPos(LintM, Named(LintR[j]))
        /\ (Rank(LintR[i]) = 2 /\ Rank(LintR[j]) = 2) =>
             OpPos(LintM, Named(LintR[i])) <= OpPos(LintM, Named(LintR[j]))

\* BUNDLED_INPUT, two REQUIRES_GRAD and at least two operator findings
C6_Witness ==
  /\ LintReturned
  /\ ~LintM.bundled
  /\ Len(LintM.params) = 2
  /\ \A i \in DOMAIN LintM.params : LintM.params[i].requires_grad
  /\ Len(LintR) >= 5
  /\ LintR[1].name = "BUNDLED_INPUT"
  /\ LintR[3].name = "REQUIRES_GRAD"
  /\ IsOpFinding(LintR[5])

\* C7: a returned sequence holds one BUNDLED_INPUT finding iff the module has
\* no bundled inputs, one REQUIRES_GRAD finding per parameter that requires
\* grad, one DROPOUT finding per operator name containing "dropout", one
\* BATCHNORM finding per operator name containing "batch_norm", and nothing
\* else.
C7_ExactFindings ==
  LintReturned =>
    LET m == LintM
        grads == {i \in DOMAIN m.params : m.params[i].requires_grad}
        drops == {i \in DOMAIN m.ops : m.ops[i] \in WithDropout}
        norms == {i \in DOMAIN m.ops : m.ops[i] \in WithBatchNorm}
    IN /\ Count(LintR, BundledFinding) = (IF m.bundled THEN 0 ELSE 1)
       /\ \A i \in DOMAIN m.params :
            Count(LintR, RequiresGradFinding(m.params[i].name)) =
              (IF i \in grads THEN 1 ELSE 0)
       /\ \A i \in DOMAIN m.ops :
            /\ Count(LintR, DropoutFinding(m.ops[i])) = (IF i \in drops THEN 1 ELSE 0)
            /\ Count(LintR, BatchNormFinding(m.ops[i])) = (IF i \in norms THEN 1 ELSE 0)
       /\ Len(LintR) = (IF m.bundled THEN 0 ELSE 1) + Cardinality(grads)
                       + Cardinality(drops) + Cardinality(norms)

\* two distinct dropout operators, two DROPOUT findings
C7_Witness ==
  /\ LintReturned
  /\ LintM.bundled
  /\ Elems(LintM.ops) = {op_dropout, op_feature_dropout}
  /\ Len(LintR) = 2
  /\ LintR[1].name = "DROPOUT" /\ LintR[2].name = "DROPOUT"
  /\ LintR[1] # LintR[2]

\* C8: a call of generate_mobile_module_lints changes no object, whether it
\* returns or raises, and a call on the input of the call before it has the
\* outcome the first call on that input had.
C8_LintReadOnly ==
  [][last_lint' # last_lint =>
       /\ heap' = heap
       /\ (last_lint'.again => last_lint'.out = last_lint'.first_out)]_vars

\* a second call on a module with a parameter that requires grad
C8_Witness ==
  /\ LintReturned
  /\ last_lint.again
  /\ \E i \in DOMAIN LintM.params : LintM.params[i].requires_grad
  /\ \E i \in DOMAIN LintR : LintR[i].name = "REQUIRES_GRAD"

\* C9 as claimed: every DROPOUT finding precedes every BATCHNORM finding.
C9_DropoutBeforeBatchNorm ==
  LintReturned =>
    \A i, j \in DOMAIN LintR :
      (LintR[i].name = "DROPOUT" /\ LintR[j].name = "BATCHNORM") => i < j

\* C9, amended: the operator names are scanned once, so a BATCHNORM finding
\* precedes a DROPOUT finding only when its operator name comes strictly
\* earlier in the iteration order; a DROPOUT finding precedes every BATCHNORM
\* finding of the same or a later operator name.
C9_SinglePassOrder ==
  LintReturned =>
    \A i, j \in DOMAIN LintR :
      (LintR[i].name = "BATCHNORM" /\ LintR[j].name = "DROPOUT") =>
        (i < j <=> OpPos(LintM, Named(LintR[i])) < OpPos(LintM, Named(LintR[j])))

\* a BATCHNORM finding before a DROPOUT finding
C9_Witness ==
  /\ LintReturned
  /\ \E i, j \in DOMAIN LintR :
       i < j /\ LintR[i].name = "BATCHNORM" /\ LintR[j].name = "DROPOUT"

Select(seq, names) ==
  LET Test(f) == f.name \in names IN SelectSeq(seq, Test)

\* C10: the findings of each check are those the check gives when the other
\* checks find nothing, and an operator name containing both "dropout" and
\* "batch_norm" gives a DROPOUT finding immediately followed by a BATCHNORM
\* finding for that name.
C10_ChecksIndependent ==
  LintReturned =>
    LET m == LintM
        quiet == ScriptModule(TRUE, <<>>, <<>>, m.graph)
    IN /\ Select(LintR, {"BUNDLED_INPUT"}) = LintList([quiet EXCEPT !.bundled = m.bundled])
       /\ Select(LintR, {"REQUIRES_GRAD"}) = LintList([quiet EXCEPT !.params = m.params])
       /\ Select(LintR, {"DROPOUT", "BATCHNORM"}) = LintList([quiet EXCEPT !.ops = m.ops])
       /\ \A k \in DOMAIN m.ops :
            /\ m.ops[k] \in WithDropout =>
                 Count(LintR, DropoutFinding(m.ops[k])) = 1
            /\ m.ops[k] \in WithBatchNorm =>
                 Count(LintR, BatchNormFinding(m.ops[k])) = 1
            /\ m.ops[k] \in WithDropout \cap WithBatchNorm =>
                 \E i \in DOMAIN LintR :
                   /\ i + 1 \in DOMAIN LintR
                   /\ LintR[i] = DropoutFinding(m.ops[k])
                   /\ LintR[i + 1] = BatchNormFinding(m.ops[k])

\* every check finds something, one operator name containing both needles
C10_Witness ==
  /\ LintReturned
  /\ ~LintM.bundled
  /\ \E i \in DOMAIN LintM.params : LintM.params[i].requires_grad
  /\ op_batch_norm_dropout \in Elems(LintM.ops)
  /\ \E i \in DOMAIN LintR :
       /\ i + 1 \in DOMAIN LintR
       /\ LintR[i] = DropoutFinding(op_batch_norm_dropout)
       /\ LintR[i + 1] = BatchNormFinding(op_batch_norm_dropout)

====
